---------------------------- MODULE Spec2Model ----------------------------
(***************************************************************************)
(* AirBuddy Online: the time-series chart engine (public/chart.js and      *)
(* public/chart_core.js), the landing page that feeds it                   *)
(* (src/pages/landing.js) and the telemetry ingestion route                *)
(* (src/routes/telemetry.js).                                              *)
(*                                                                         *)
(* JavaScript numbers are modelled as exact rationals [n, d] with d > 0;   *)
(* a non-finite number (NaN, Infinity) is the record with d = 0.           *)
(***************************************************************************)
EXTENDS Integers, Sequences, FiniteSets, TLC

(***************************************************************************)
(* Numbers                                                                 *)
(***************************************************************************)
RECURSIVE GCD(_, _)
GCD(a, b) == IF b = 0 THEN a ELSE GCD(b, a % b)

Abs(x) == IF x < 0 THEN -x ELSE x

Max2(a, b) == IF a >= b THEN a ELSE b

NaN == [n |-> 0, d |-> 0]

\* the rational n/d in lowest terms with a positive denominator
Rat(n, d) ==
    LET g == GCD(Abs(n), Abs(d))
        s == IF d < 0 THEN -1 ELSE 1
    IN  IF d = 0 THEN NaN ELSE [n |-> s * (n \div g), d |-> s * (d \div g)]

Num(i) == [n |-> i, d |-> 1]

IsFinite(x) == x.d # 0

REq(a, b) == a.n * b.d = b.n * a.d
RLe(a, b) == a.n * b.d <= b.n * a.d
RLt(a, b) == a.n * b.d < b.n * a.d
RAdd(a, b) == Rat(a.n * b.d + b.n * a.d, a.d * b.d)
RSub(a, b) == Rat(a.n * b.d - b.n * a.d, a.d * b.d)
RMul(a, b) == Rat(a.n * b.n, a.d * b.d)
RDiv(a, b) == Rat(a.n * b.d, a.d * b.n)
RAbs(a) == [n |-> Abs(a.n), d |-> a.d]
RNeg(a) == [n |-> -a.n, d |-> a.d]

\* Math.floor and Math.ceil of a finite number
MathFloor(a) == a.n \div a.d
MathCeil(a) == -((-a.n) \div a.d)

RECURSIVE Pow10(_)
Pow10(k) == IF k = 0 THEN 1 ELSE 10 * Pow10(k - 1)

\* Math.floor(Math.log10(n/d)) for n/d > 0
RECURSIVE ExpUp(_, _)
ExpUp(n, d) == IF n < 10 * d THEN 0 ELSE 1 + ExpUp(n, 10 * d)

RECURSIVE ExpDown(_, _)
ExpDown(n, d) == IF n >= d THEN 0 ELSE ExpDown(10 * n, d) - 1

FloorLog10(x) == IF x.n >= x.d THEN ExpUp(x.n, x.d) ELSE ExpDown(x.n, x.d)

\* Math.pow(10, k)
MathPow10(k) == IF k >= 0 THEN Num(Pow10(k)) ELSE Rat(1, Pow10(-k))

(***************************************************************************)
(* AxisScaler: niceStep and niceBounds                                     *)
(***************************************************************************)
\* niceStep with strict comparisons of the mantissa
niceStepStrict(targetStep) ==
    IF ~IsFinite(targetStep) \/ targetStep.n <= 0 THEN Num(1)
    ELSE LET pow == MathPow10(FloorLog10(targetStep))
             base == RDiv(targetStep, pow)
             nice == IF RLt(base, Num(1)) THEN 1
                     ELSE IF RLt(base, Num(2)) THEN 2
                     ELSE IF RLt(base, Num(5)) THEN 5
                     ELSE 10
         IN  RMul(Num(nice), pow)

niceStep(targetStep) ==
    IF ~IsFinite(targetStep) \/ targetStep.n <= 0 THEN Num(1)
    ELSE LET pow == MathPow10(FloorLog10(targetStep))
             base == RDiv(targetStep, pow)
             nice == IF RLe(base, Num(1)) THEN 1
                     ELSE IF RLe(base, Num(2)) THEN 2
                     ELSE IF RLe(base, Num(5)) THEN 5
                     ELSE 10
         IN  RMul(Num(nice), pow)

\* the range after the degenerate-range padding
PadLo(minV, maxV) ==
    IF REq(minV, maxV)
    THEN RSub(minV, IF REq(minV, Num(0)) THEN Num(1) ELSE RMul(RAbs(minV), Rat(1, 10)))
    ELSE minV

\* PadHi without the special case for zero
PadHiNoZeroCase(minV, maxV) ==
    IF REq(minV, maxV) THEN RAdd(maxV, RMul(RAbs(minV), Rat(1, 10))) ELSE maxV

PadHi(minV, maxV) ==
    IF REq(minV, maxV)
    THEN RAdd(maxV, IF REq(minV, Num(0)) THEN Num(1) ELSE RMul(RAbs(minV), Rat(1, 10)))
    ELSE maxV

RawStep(minV, maxV, ticks) ==
    RDiv(RSub(PadHi(minV, maxV), PadLo(minV, maxV)), Num(Max2(1, ticks - 1)))

DefaultBounds == [min |-> Num(0), max |-> Num(1), step |-> Num(1)]

\* Math.round of a finite number
MathRound(a) == (2 * a.n + a.d) \div (2 * a.d)

\* niceBounds snapping to the nearest multiple of the step
niceBoundsNearest(minV, maxV, ticks) ==
    IF ~IsFinite(minV) \/ ~IsFinite(maxV) THEN DefaultBounds
    ELSE LET step == niceStep(RawStep(minV, maxV, ticks))
         IN  [min |-> RMul(Num(MathRound(RDiv(PadLo(minV, maxV), step))), step),
              max |-> RMul(Num(MathRound(RDiv(PadHi(minV, maxV), step))), step),
              step |-> step]

\* niceBounds without the padding of a degenerate range
niceBoundsNoPad(minV, maxV, ticks) ==
    IF ~IsFinite(minV) \/ ~IsFinite(maxV) THEN DefaultBounds
    ELSE LET step == niceStep(RDiv(RSub(maxV, minV), Num(Max2(1, ticks - 1))))
         IN  [min |-> RMul(Num(MathFloor(RDiv(minV, step))), step),
              max |-> RMul(Num(MathCeil(RDiv(maxV, step))), step),
              step |-> step]

\* public/chart_core.js, and the chart core appended to public/chart.js
niceBounds(minV, maxV, ticks) ==
    IF ~IsFinite(minV) \/ ~IsFinite(maxV) THEN DefaultBounds
    ELSE LET step == niceStep(RawStep(minV, maxV, ticks))
         IN  [min |-> RMul(Num(MathFloor(RDiv(PadLo(minV, maxV), step))), step),
              max |-> RMul(Num(MathCeil(RDiv(PadHi(minV, maxV), step))), step),
              step |-> step]

\* the first chart script of public/chart.js: pushes max when rounding collapses
niceBoundsV1(minV, maxV, ticks) ==
    IF ~IsFinite(minV) \/ ~IsFinite(maxV) THEN DefaultBounds
    ELSE LET step == niceStep(RawStep(minV, maxV, ticks))
             niceMin == RMul(Num(MathFloor(RDiv(PadLo(minV, maxV), step))), step)
             niceMax == RMul(Num(MathCeil(RDiv(PadHi(minV, maxV), step))), step)
         IN  IF REq(niceMin, niceMax)
             THEN [min |-> niceMin, max |-> RAdd(niceMax, step), step |-> step]
             ELSE [min |-> niceMin, max |-> niceMax, step |-> step]


(***************************************************************************)
(* Array entries as the page delivers them: a number, null, or anything    *)
(* Number() turns into NaN (undefined past the end of an array, NaN, a     *)
(* non-numeric string).                                                    *)
(***************************************************************************)
JsNum(i) == [k |-> "num", v |-> i]
JsNull == [k |-> "null", v |-> 0]
JsNaN == [k |-> "nan", v |-> 0]

None == [ok |-> FALSE, v |-> 0]
Some(i) == [ok |-> TRUE, v |-> i]

\* Number(x), then null unless finite: Number(null) is 0
toFiniteNumber(x) ==
    IF x.k = "num" THEN Some(x.v)
    ELSE IF x.k = "null" THEN Some(0)
    ELSE None

\* arr[i] of a JavaScript array (1-based here), undefined past its end
At(arr, i) == IF i \in 1..Len(arr) THEN arr[i] ELSE JsNaN

(***************************************************************************)
(* WindowSelector                                                          *)
(***************************************************************************)
RangeKeys == {"1h", "6h", "24h", "72h", "7d", "30d"}

DEFAULT_RANGES_HOURS ==
    [key \in RangeKeys |->
        CASE key = "1h" -> 1
          [] key = "6h" -> 6
          [] key = "24h" -> 24
          [] key = "72h" -> 72
          [] key = "7d" -> 24 * 7
          [] key = "30d" -> 24 * 30]

\* HoursOf without the fallback: a key the table lacks gives a window of no width
HoursOfNoFallback(rangeKey) ==
    LET key == IF rangeKey = "" THEN "24h" ELSE rangeKey
    IN  IF key \in RangeKeys THEN DEFAULT_RANGES_HOURS[key] ELSE 0

\* ranges[opts.rangeKey || "24h"] || 24
HoursOf(rangeKey) ==
    LET key == IF rangeKey = "" THEN "24h" ELSE rangeKey
    IN  IF key \in RangeKeys THEN DEFAULT_RANGES_HOURS[key] ELSE 24

\* Number.isFinite(opts.maxGapS) ? opts.maxGapS : 240
MaxGapOf(maxGapS) == IF maxGapS.k = "num" THEN maxGapS.v ELSE 240

\* the scan for the latest data timestamp
RECURSIVE MaxDataT(_, _, _)
MaxDataT(timestamps, i, maxDataT) ==
    IF i > Len(timestamps) THEN maxDataT
    ELSE LET v == toFiniteNumber(timestamps[i])
         IN  MaxDataT(timestamps, i + 1,
                      IF v.ok /\ (~maxDataT.ok \/ v.v > maxDataT.v) THEN v ELSE maxDataT)

NoWindow == [has |-> FALSE, cutoff |-> 0, latest |-> 0]

\* public/chart.js: the window ends at the latest data timestamp
WindowLatest(timestamps, rangeKey) ==
    LET m == MaxDataT(timestamps, 1, None)
    IN  IF ~m.ok THEN NoWindow
        ELSE [has |-> TRUE, cutoff |-> m.v - HoursOf(rangeKey) * 3600, latest |-> m.v]

\* public/chart_core.js: the window ends at the wall clock (no caller passes nowUnixSec)
WindowNow(clock, rangeKey) ==
    [has |-> TRUE, cutoff |-> clock - HoursOf(rangeKey) * 3600, latest |-> clock]

(***************************************************************************)
(* SeriesFilter                                                            *)
(***************************************************************************)
\* InWindow dropping the sample that sits exactly on the cutoff
InWindowStrict(t, w) == t.ok /\ ~(t.v <= w.cutoff \/ t.v > w.latest)

InWindow(t, w) == t.ok /\ ~(t.v < w.cutoff \/ t.v > w.latest)

\* builtSeries[si].data as the filtering loop leaves it (index order)
RECURSIVE FilterSeries(_, _, _, _)
FilterSeries(timestamps, values, w, i) ==
    IF i > Len(timestamps) THEN <<>>
    ELSE LET t == toFiniteNumber(timestamps[i])
             v == toFiniteNumber(At(values, i))
         IN  (IF InWindow(t, w) /\ v.ok THEN <<[t |-> t.v, v |-> v.v]>> ELSE <<>>)
                 \o FilterSeries(timestamps, values, w, i + 1)

\* FilterReadingTimes counting an index only when every series holds a value
RECURSIVE FilterReadingTimesAll(_, _, _, _)
FilterReadingTimesAll(timestamps, series, w, i) ==
    IF i > Len(timestamps) THEN <<>>
    ELSE LET t == toFiniteNumber(timestamps[i])
             anyVal == \A si \in 1..Len(series) : toFiniteNumber(At(series[si], i)).ok
         IN  (IF InWindow(t, w) /\ anyVal THEN <<t.v>> ELSE <<>>)
                 \o FilterReadingTimesAll(timestamps, series, w, i + 1)

\* readingTimes as the filtering loop leaves it (index order)
RECURSIVE FilterReadingTimes(_, _, _, _)
FilterReadingTimes(timestamps, series, w, i) ==
    IF i > Len(timestamps) THEN <<>>
    ELSE LET t == toFiniteNumber(timestamps[i])
             anyVal == \E si \in 1..Len(series) : toFiniteNumber(At(series[si], i)).ok
         IN  (IF InWindow(t, w) /\ anyVal THEN <<t.v>> ELSE <<>>)
                 \o FilterReadingTimes(timestamps, series, w, i + 1)

(***************************************************************************)
(* Array.prototype.sort with comparator (a, b) => a.t - b.t: stable        *)
(***************************************************************************)
RECURSIVE InsertByT(_, _)
InsertByT(p, sorted) ==
    IF sorted = <<>> THEN <<p>>
    ELSE IF sorted[Len(sorted)].t <= p.t THEN Append(sorted, p)
    ELSE Append(InsertByT(p, SubSeq(sorted, 1, Len(sorted) - 1)), sorted[Len(sorted)])

\* SortByT leaving the list in the order it came
SortByTNone(data) == data

RECURSIVE SortByT(_)
SortByT(data) ==
    IF data = <<>> THEN <<>>
    ELSE InsertByT(data[Len(data)], SortByT(SubSeq(data, 1, Len(data) - 1)))

SortNumbers(ts) ==
    IF ts = <<>> THEN <<>>
    ELSE LET s == SortByT([i \in 1..Len(ts) |-> [t |-> ts[i]]])
         IN  [i \in 1..Len(ts) |-> s[i].t]

(***************************************************************************)
(* SegmentBuilder                                                          *)
(***************************************************************************)
\* drawSeriesWithGaps breaking the line at a gap equal to maxGapS
RECURSIVE drawSeriesWithGapsGE(_, _)
drawSeriesWithGapsGE(data, maxGapS) ==
    IF data = <<>> THEN <<>>
    ELSE LET n == Len(data)
             before == drawSeriesWithGapsGE(SubSeq(data, 1, n - 1), maxGapS)
             d == data[n]
         IN  IF n = 1 \/ (d.t - data[n - 1].t) >= maxGapS
             THEN Append(before, <<d>>)
             ELSE [before EXCEPT ![Len(before)] = Append(@, d)]

\* drawSeriesWithGaps stroking every series as one path
drawSeriesOnePath(data, maxGapS) == IF data = <<>> THEN <<>> ELSE <<data>>

\* the paths drawSeriesWithGaps strokes: one sequence of points per beginPath
RECURSIVE drawSeriesWithGaps(_, _)
drawSeriesWithGaps(data, maxGapS) ==
    IF data = <<>> THEN <<>>
    ELSE LET n == Len(data)
             before == drawSeriesWithGaps(SubSeq(data, 1, n - 1), maxGapS)
             d == data[n]
             pathOpen == n > 1
             gapTooBig == n > 1 /\ (d.t - data[n - 1].t) > maxGapS
         IN  IF ~pathOpen \/ gapTooBig
             THEN Append(before, <<d>>)
             ELSE [before EXCEPT ![Len(before)] = Append(@, d)]

\* the gap markers of public/chart_core.js: readingTimes sorted, a marker at prevT
RECURSIVE MarkersOf(_, _)
MarkersOf(sortedTimes, maxGapS) ==
    IF Len(sortedTimes) < 2 THEN <<>>
    ELSE LET n == Len(sortedTimes)
             before == MarkersOf(SubSeq(sortedTimes, 1, n - 1), maxGapS)
         IN  IF (sortedTimes[n] - sortedTimes[n - 1]) > maxGapS
             THEN Append(before, sortedTimes[n - 1])
             ELSE before

GapMarkersCore(readingTimes, maxGapS) == MarkersOf(SortNumbers(readingTimes), maxGapS)

\* public/chart.js defines drawGapMarker and never calls it
GapMarkersLatest(readingTimes, maxGapS) == <<>>

(***************************************************************************)
(* ChartPlanner: one call of drawTimeSeriesChart                           *)
(***************************************************************************)
Engines == {"chart.js", "chart_core.js"}

WindowOf(engine, timestamps, rangeKey, clock) ==
    IF engine = "chart_core.js" THEN WindowNow(clock, rangeKey)
    ELSE WindowLatest(timestamps, rangeKey)

GapMarkersOf(engine, readingTimes, maxGapS) ==
    IF engine = "chart.js" THEN GapMarkersLatest(readingTimes, maxGapS)
    ELSE GapMarkersCore(readingTimes, maxGapS)

RECURSIVE SeqMin(_)
SeqMin(vals) ==
    IF Len(vals) = 1 THEN vals[1]
    ELSE LET m == SeqMin(SubSeq(vals, 1, Len(vals) - 1))
         IN  IF vals[Len(vals)] < m THEN vals[Len(vals)] ELSE m

RECURSIVE SeqMax(_)
SeqMax(vals) ==
    IF Len(vals) = 1 THEN vals[1]
    ELSE LET m == SeqMax(SubSeq(vals, 1, Len(vals) - 1))
         IN  IF vals[Len(vals)] > m THEN vals[Len(vals)] ELSE m

RECURSIVE AllVals(_)
AllVals(built) ==
    IF built = <<>> THEN <<>>
    ELSE AllVals(SubSeq(built, 1, Len(built) - 1))
            \o [i \in 1..Len(built[Len(built)]) |-> built[Len(built)][i].v]

YBounds(built) ==
    LET allVals == AllVals(built)
        minV == IF allVals # <<>> THEN SeqMin(allVals) ELSE 0
        maxV == IF allVals # <<>> THEN SeqMax(allVals) ELSE 1
    IN  niceBounds(Num(minV), Num(maxV), 5)

NoBounds == [min |-> NaN, max |-> NaN, step |-> NaN]

\* what one call leaves behind: the text or chart on the canvas and the values it drew from
Plan(engine, opts, clock) ==
    LET w == WindowOf(engine, opts.timestamps, opts.rangeKey, clock)
        maxGapS == MaxGapOf(opts.maxGapS)
        built == [si \in 1..Len(opts.series) |->
                     FilterSeries(opts.timestamps, opts.series[si], w, 1)]
        times == FilterReadingTimes(opts.timestamps, opts.series, w, 1)
        sorted == [si \in 1..Len(opts.series) |-> SortByT(built[si])]
        empty == [si \in 1..Len(opts.series) |-> <<>>]
    IN  IF ~w.has
        THEN [text |-> "No data", win |-> w, series |-> empty, readingTimes |-> <<>>,
              gapMarkers |-> <<>>, paths |-> empty, yB |-> NoBounds]
        ELSE IF times = <<>>
        THEN [text |-> "No data in range", win |-> w, series |-> built,
              readingTimes |-> times, gapMarkers |-> <<>>, paths |-> empty,
              yB |-> NoBounds]
        ELSE [text |-> "chart", win |-> w, series |-> sorted,
              readingTimes |-> IF engine = "chart.js" THEN times ELSE SortNumbers(times),
              gapMarkers |-> GapMarkersOf(engine, times, maxGapS),
              paths |-> [si \in 1..Len(opts.series) |->
                            drawSeriesWithGaps(sorted[si], maxGapS)],
              yB |-> YBounds(built)]

(***************************************************************************)
(* HoverLocator: the mousemove handlers a call attaches to the canvas      *)
(***************************************************************************)
\* the older build of public/chart.js (drawChart, attachHoverTitle), which has
\* the window and the gap markers of the builds above and its own hover code
HoverEngines == {"chart.js", "part_003"}

padL == 60
padR == 20

\* rect.width of the canvas
CanvasWidth == 440

plotW == CanvasWidth - padL - padR

padT == 20
padB == 50

\* rect.width and rect.height a canvas can have: collapsed, narrower than the
\* padding, and as laid out on the pages
CanvasWidths == {0, 60, CanvasWidth}
CanvasHeights == {0, 40, 240}

\* plotW and plotH of a build on a canvas of W by H
plotWOn(eng, W) ==
    IF eng = "chart_core.js" THEN (IF W - padL - padR > 1 THEN W - padL - padR ELSE 1)
    ELSE W - padL - padR

plotHOn(eng, H) ==
    IF eng = "chart_core.js" THEN (IF H - padT - padB > 1 THEN H - padT - padB ELSE 1)
    ELSE H - padT - padB

\* xMap and yMap of a call that drew the window w with the bounds yB
xMapOn(eng, W, w, t) ==
    RAdd(Num(padL),
         RMul(RDiv(Num(t - w.cutoff), Num(w.latest - w.cutoff)), Num(plotWOn(eng, W))))

yMapOn(eng, H, yB, v) ==
    RAdd(Num(padT),
         RMul(RSub(Num(1), RDiv(RSub(Num(v), yB.min), RSub(yB.max, yB.min))),
              Num(plotHOn(eng, H))))

\* xMap of the call that drew the window w
xMap(w, t) ==
    RAdd(Num(padL), RMul(RDiv(Num(t - w.cutoff), Num(w.latest - w.cutoff)), Num(plotW)))

\* the points the handler of public/chart.js walks: series by series, each sorted
RECURSIVE PointsOf(_, _)
PointsOf(sorted, si) ==
    IF si > Len(sorted) THEN <<>>
    ELSE [j \in 1..Len(sorted[si]) |->
             [time |-> sorted[si][j].t, value |-> sorted[si][j].v, name |-> si]]
         \o PointsOf(sorted, si + 1)

\* readings of drawChart as its loop leaves them: {t, tv, rv} per in-window index
\* with a value
RECURSIVE FilterReadings(_, _, _, _)
FilterReadings(timestamps, series, w, i) ==
    IF i > Len(timestamps) THEN <<>>
    ELSE LET t == toFiniteNumber(timestamps[i])
             vals == [si \in 1..Len(series) |-> toFiniteNumber(At(series[si], i))]
         IN  (IF InWindow(t, w) /\ \E si \in 1..Len(series) : vals[si].ok
              THEN <<[t |-> t.v, vals |-> vals]>> ELSE <<>>)
                 \o FilterReadings(timestamps, series, w, i + 1)

ReadingsOf(opts, w) ==
    LET r == SortByT(FilterReadings(opts.timestamps, opts.series, w, 1))
    IN  [j \in 1..Len(r) |-> [time |-> r[j].t, value |-> r[j].vals, name |-> 0]]

\* NearestFrom letting a later point at the same distance replace the earlier one
RECURSIVE NearestFromLast(_, _, _, _, _)
NearestFromLast(cands, w, mouseX, i, best) ==
    IF i > Len(cands) THEN best
    ELSE LET dx == RAbs(RSub(Num(mouseX), xMap(w, cands[i].time)))
         IN  NearestFromLast(cands, w, mouseX, i + 1,
                 IF ~best.found \/ RLe(dx, best.dx)
                 THEN [found |-> TRUE, dx |-> dx, hit |-> cands[i]]
                 ELSE best)

\* the loop "if (dx < bestDx) { bestDx = dx; nearest = ... }" from index i on
RECURSIVE NearestFrom(_, _, _, _, _)
NearestFrom(cands, w, mouseX, i, best) ==
    IF i > Len(cands) THEN best
    ELSE LET dx == RAbs(RSub(Num(mouseX), xMap(w, cands[i].time)))
         IN  NearestFrom(cands, w, mouseX, i + 1,
                 IF ~best.found \/ RLt(dx, best.dx)
                 THEN [found |-> TRUE, dx |-> dx, hit |-> cands[i]]
                 ELSE best)

NoNearest == [found |-> FALSE, dx |-> NaN, hit |-> [time |-> 0, value |-> 0, name |-> 0]]

\* canvas.onmousemove of public/chart.js: the title the handler h leaves at mouseX
onmousemove(h, mouseX) ==
    LET n == NearestFrom(h.cands, h.win, mouseX, 1, NoNearest)
    IN  IF n.found /\ RLt(n.dx, Num(10)) THEN <<n.hit>> ELSE <<>>

\* onMove of attachHoverTitle with the pickNearestFn drawChart passes
onMove(h, mouseX) ==
    LET n == NearestFrom(h.cands, h.win, mouseX, 1, NoNearest)
    IN  IF ~n.found \/ RLt(Num(10), n.dx) THEN <<>> ELSE <<n.hit>>

NoHandlers == [move |-> <<>>, leave |-> 0]

\* the handlers on the canvas after a call that left the plan p: a call that ends
\* in an empty state returns before it touches them
Attach(engine, handlers, callOpts, p) ==
    IF p.text # "chart" THEN handlers
    ELSE IF engine = "chart.js"
    THEN [handlers EXCEPT !.move =
             <<[fn |-> "onmousemove", cands |-> PointsOf(p.series, 1), win |-> p.win]>>]
    ELSE IF engine = "part_003"
    THEN [move |-> Append(handlers.move,
                      [fn |-> "onMove", cands |-> ReadingsOf(callOpts, p.win), win |-> p.win]),
          leave |-> handlers.leave + 1]
    ELSE handlers

\* the mousemove event: every handler runs in the order it was attached
RECURSIVE Dispatch(_, _, _, _)
Dispatch(move, mouseX, i, title) ==
    IF i > Len(move) THEN title
    ELSE Dispatch(move, mouseX, i + 1,
             IF move[i].fn = "onmousemove" THEN onmousemove(move[i], mouseX)
             ELSE onMove(move[i], mouseX))

(***************************************************************************)
(* State                                                                   *)
(***************************************************************************)
VARIABLES
    now,          \* wall clock, unix seconds
    engine,       \* which build of the chart core the page loaded
    timestamps,   \* data-timestamps of the canvas, read once at boot
    temps,        \* data-temps
    rtcTemps,     \* data-rtc-temps
    select,       \* value of #range-select
    booted,       \* temps.js has run boot()
    opts,         \* argument of the last drawTimeSeriesChart call
    plan,         \* what that call left on the canvas
    call,         \* a direct call of a helper: [fn, args, done, ret]
    telemetry,    \* rows of telemetry_readings_tb, in insertion order
    lastSeenAt,   \* devices_tb.last_seen_at, by device_id
    app,          \* the server file that runs: "src/server.js" or the older "server.js"
    reqs,         \* the API requests being served, by slot: where each stands
                  \* in its middleware and handler, and what it holds
    out,          \* connections checked out of the pool
    resp,         \* the last HTTP response: [route, status]
    page,         \* the document in the browser: [loaded, rows]; rows is the
                  \* number of telemetry rows the table held when it was rendered
    handlers,     \* hover handlers on the canvas: [move, leave], move the mousemove
                  \* handlers in the order attached, leave the count of mouseleave ones
    title,        \* canvas.title: <<>> when empty, else <<the point shown>>
    pointer       \* x of the pointer over the canvas at its last event, -1 when
                  \* it is not over the canvas

api == <<app, reqs, out>>

server == <<telemetry, lastSeenAt, resp, api>>

canvas == <<handlers, title, pointer>>

vars == <<now, engine, timestamps, temps, rtcTemps, select, booted, opts, plan, call,
          telemetry, lastSeenAt, resp, app, reqs, out, page, handlers, title, pointer>>

(***************************************************************************)
(* db/migrations/002_airbuddy_homefirst.sql: the rows the API reads        *)
(***************************************************************************)
\* devices_tb: two active devices and one that is not
devices_tb ==
    {[device_id |-> 1, device_uid |-> "AB-1", status |-> "active"],
     [device_id |-> 2, device_uid |-> "AB-2", status |-> "active"],
     [device_id |-> 3, device_uid |-> "AB-3", status |-> "disabled"]}

DeviceIds == {d.device_id : d \in devices_tb}

\* crypto.createHash("sha256").update(str).digest("hex"): one digest per string
sha256Hex(str) == <<"sha256", str>>

\* device_keys_tb: revoked stands for revoked_at IS NOT NULL
device_keys_tb ==
    {[device_id |-> 1, key_hash |-> sha256Hex("key-1"), revoked |-> FALSE],
     [device_id |-> 1, key_hash |-> sha256Hex("key-1-old"), revoked |-> TRUE],
     [device_id |-> 2, key_hash |-> sha256Hex("key-2"), revoked |-> FALSE],
     [device_id |-> 3, key_hash |-> sha256Hex("key-3"), revoked |-> FALSE]}

NeverSeen == [d \in DeviceIds |-> None]

\* the transaction of a connection: the writes it holds back until commit
NoTxn == [open |-> FALSE, rows |-> <<>>, seen |-> None]

NoBody == [recorded_at |-> NaN, values |-> {}]

\* a request slot nobody uses
NoReq ==
    [route |-> "", uid |-> "", key |-> "", body |-> NoBody, pc |-> "idle", pass |-> 0,
     device |-> 0, authed |-> 0, txn |-> NoTxn, status |-> 0, sent |-> 0,
     acquired |-> 0, released |-> 0, held |-> 0]

MaxInFlight == 2

Slots == 1..MaxInFlight

NoReqs == [r \in Slots |-> NoReq]

NoOpts == [timestamps |-> <<>>, series |-> <<>>, rangeKey |-> "", maxGapS |-> JsNaN]

NoPlan == [text |-> "", win |-> NoWindow, series |-> <<>>, readingTimes |-> <<>>,
           gapMarkers |-> <<>>, paths |-> <<>>, yB |-> NoBounds]

NoResp == [route |-> "", status |-> 0]

NoCall == [fn |-> "", args |-> <<>>, done |-> FALSE, ret |-> <<>>]

(***************************************************************************)
(* public/temps.js                                                         *)
(***************************************************************************)
\* redraw(): the options temps.js passes
RedrawOpts(rangeKey) ==
    [timestamps |-> timestamps, series |-> <<temps, rtcTemps>>,
     rangeKey |-> rangeKey, maxGapS |-> JsNum(240)]

MaxHandlers == 2

\* a draw that sorts the caller's timestamps where they lie, latest first
InputsAfterDrawReversed(callOpts) ==
    [timestamps |-> [i \in 1..Len(callOpts.timestamps) |->
                        callOpts.timestamps[Len(callOpts.timestamps) + 1 - i]],
     series |-> callOpts.series]

\* the caller's arrays when drawTimeSeriesChart returns: it reads them by index
\* and pushes into and sorts only builtSeries[si].data and readingTimes
InputsAfterDraw(callOpts) ==
    [timestamps |-> callOpts.timestamps, series |-> callOpts.series]

redraw(rangeKey) ==
    /\ Len(handlers.move) < MaxHandlers
    /\ opts' = RedrawOpts(rangeKey)
    /\ plan' = Plan(engine, opts', now)
    /\ handlers' = Attach(engine, handlers, opts', plan')
    /\ timestamps' = InputsAfterDraw(opts').timestamps
    /\ temps' = InputsAfterDraw(opts').series[1]
    /\ rtcTemps' = InputsAfterDraw(opts').series[2]

\* boot(): register the listeners, first redraw
Boot ==
    /\ page.loaded
    /\ ~booted
    /\ booted' = TRUE
    /\ redraw(select)
    /\ UNCHANGED <<now, engine, select, call, server, page, title, pointer>>

\* the change listener of #range-select
ChangeRange(key) ==
    /\ booted
    /\ key # select
    /\ select' = key
    /\ redraw(key)
    /\ UNCHANGED <<now, engine, booted, call, server, page, title, pointer>>

\* the resize listener of window
Resize ==
    /\ booted
    /\ redraw(select)
    /\ UNCHANGED <<now, engine, select, booted, call, server, page, title, pointer>>

(***************************************************************************)
(* The chart engine on arbitrary arrays                                    *)
(***************************************************************************)
MaxLen == 2

TsDomain == {JsNum(0), JsNum(240), JsNum(3840), JsNaN}
TempDomain == {JsNum(10), JsNull, JsNaN}
RtcDomain == {JsNum(20), JsNaN}
SelectDomain == {"1h", "2w"}
Clocks == {300, 3840}

ArraysOf(D, n) == [1..n -> D]

Tick(c) ==
    /\ c > now
    /\ now' = c
    /\ UNCHANGED <<engine, timestamps, temps, rtcTemps, select, booted, opts, plan, call, server, page, canvas>>

InitChart ==
    /\ now = 300
    /\ engine \in Engines
    /\ \E n \in 0..MaxLen :
          /\ timestamps \in ArraysOf(TsDomain, n)
          /\ temps \in ArraysOf(TempDomain, n)
          /\ rtcTemps \in ArraysOf(RtcDomain, n)
    /\ select = "1h"
    /\ booted = FALSE
    /\ opts = NoOpts
    /\ plan = NoPlan
    /\ call = NoCall
    /\ telemetry = <<>>
    /\ lastSeenAt = NeverSeen
    /\ app = "src/server.js"
    /\ reqs = NoReqs
    /\ out = 0
    /\ resp = NoResp
    /\ page = [loaded |-> TRUE, rows |-> 0, range |-> ""]
    /\ handlers = NoHandlers
    /\ title = <<>>
    /\ pointer = -1

NextChart ==
    \/ Boot
    \/ \E key \in SelectDomain : ChangeRange(key)
    \/ Resize
    \/ \E c \in Clocks : Tick(c)

SpecChart == InitChart /\ [][NextChart]_vars

(***************************************************************************)
(* The pointer over the canvas                                             *)
(***************************************************************************)
HoverLen == 2

HoverTs == {JsNum(0), JsNum(240), JsNum(3840)}
HoverTemps == {JsNum(10), JsNaN}
HoverRtc == {JsNum(20), JsNaN}

\* ev.clientX - rect.left
MouseXs == {50, 412, 420, 430}

\* the mousemove event on the canvas
MouseMove(mouseX) ==
    /\ page.loaded
    /\ pointer' = mouseX
    /\ title' = Dispatch(handlers.move, mouseX, 1, title)
    /\ UNCHANGED <<now, engine, timestamps, temps, rtcTemps, select, booted, opts, plan,
                   call, server, page, handlers>>

\* the mouseleave event on the canvas
MouseLeave ==
    /\ page.loaded
    /\ pointer # -1
    /\ pointer' = -1
    /\ title' = IF handlers.leave > 0 THEN <<>> ELSE title
    /\ UNCHANGED <<now, engine, timestamps, temps, rtcTemps, select, booted, opts, plan,
                   call, server, page, handlers>>

InitHover ==
    /\ now = 300
    /\ engine \in HoverEngines
    /\ \E n \in 0..HoverLen :
          /\ timestamps \in ArraysOf(HoverTs, n)
          /\ temps \in ArraysOf(HoverTemps, n)
          /\ rtcTemps \in ArraysOf(HoverRtc, n)
    /\ select = "1h"
    /\ booted = FALSE
    /\ opts = NoOpts
    /\ plan = NoPlan
    /\ call = NoCall
    /\ telemetry = <<>>
    /\ lastSeenAt = NeverSeen
    /\ app = "src/server.js"
    /\ reqs = NoReqs
    /\ out = 0
    /\ resp = NoResp
    /\ page = [loaded |-> TRUE, rows |-> 0, range |-> ""]
    /\ handlers = NoHandlers
    /\ title = <<>>
    /\ pointer = -1

NextHover ==
    \/ Boot
    \/ \E key \in SelectDomain : ChangeRange(key)
    \/ Resize
    \/ \E mouseX \in MouseXs : MouseMove(mouseX)
    \/ MouseLeave

SpecHover == InitHover /\ [][NextHover]_vars

(***************************************************************************)
(* The helpers called directly                                             *)
(***************************************************************************)
MaxNum == 6
MaxTicks == 5
MaxPts == 3

\* finite numbers -MaxNum..MaxNum in units, tenths and quarters
NumInputs == {Rat(a, d) : a \in -MaxNum..MaxNum, d \in {1, 4, 10}}

\* step candidates: small fractions and decades of them
StepInputs == {Rat(a * m, d) : a \in 0..MaxNum, m \in {1, 10, 100}, d \in {1, 3, 4, 10, 100}}

PointTimes == {0, 60, 300, 301, 600}
GapInputs == {240, 300}

\* point lists in ascending time order, as every caller passes them
SortedData ==
    {data \in UNION {[1..n -> {[t |-> t, v |-> 1] : t \in PointTimes}] : n \in 0..MaxPts} :
        \A i \in 1..(Len(data) - 1) : data[i].t <= data[i + 1].t}

\* the calls a run may make: the function and its arguments, result pending
HelperCalls ==
    {[fn |-> "niceStep", args |-> <<s>>, done |-> FALSE, ret |-> <<>>] :
        s \in StepInputs \cup {NaN, Num(-1)}}
    \cup {[fn |-> f, args |-> <<a, b, n>>, done |-> FALSE, ret |-> <<>>] :
        f \in {"niceBounds", "niceBoundsV1"}, a \in NumInputs \cup {NaN},
        b \in NumInputs \cup {NaN}, n \in 0..MaxTicks}
    \cup {[fn |-> "drawSeriesWithGaps", args |-> <<data, g>>, done |-> FALSE, ret |-> <<>>] :
        data \in SortedData, g \in GapInputs}

CallNiceStep ==
    /\ call.fn = "niceStep" /\ ~call.done
    /\ call' = [call EXCEPT !.done = TRUE, !.ret = niceStep(call.args[1])]
    /\ UNCHANGED <<now, engine, timestamps, temps, rtcTemps, select, booted, opts, plan, server, page, canvas>>

CallNiceBounds ==
    /\ call.fn = "niceBounds" /\ ~call.done
    /\ call' = [call EXCEPT !.done = TRUE, !.ret = niceBounds(call.args[1], call.args[2], call.args[3])]
    /\ UNCHANGED <<now, engine, timestamps, temps, rtcTemps, select, booted, opts, plan, server, page, canvas>>

CallNiceBoundsV1 ==
    /\ call.fn = "niceBoundsV1" /\ ~call.done
    /\ call' = [call EXCEPT !.done = TRUE, !.ret = niceBoundsV1(call.args[1], call.args[2], call.args[3])]
    /\ UNCHANGED <<now, engine, timestamps, temps, rtcTemps, select, booted, opts, plan, server, page, canvas>>

CallDrawSeriesWithGaps ==
    /\ call.fn = "drawSeriesWithGaps" /\ ~call.done
    /\ call' = [call EXCEPT !.done = TRUE, !.ret = drawSeriesWithGaps(call.args[1], call.args[2])]
    /\ UNCHANGED <<now, engine, timestamps, temps, rtcTemps, select, booted, opts, plan, server, page, canvas>>

InitHelpers ==
    /\ now = 300
    /\ engine = "chart.js"
    /\ timestamps = <<>>
    /\ temps = <<>>
    /\ rtcTemps = <<>>
    /\ select = "24h"
    /\ booted = FALSE
    /\ opts = NoOpts
    /\ plan = NoPlan
    /\ call \in HelperCalls
    /\ telemetry = <<>>
    /\ lastSeenAt = NeverSeen
    /\ app = "src/server.js"
    /\ reqs = NoReqs
    /\ out = 0
    /\ resp = NoResp
    /\ page = [loaded |-> FALSE, rows |-> 0, range |-> ""]
    /\ handlers = NoHandlers
    /\ title = <<>>
    /\ pointer = -1

NextHelpers ==
    \/ CallNiceStep
    \/ CallNiceBounds
    \/ CallNiceBoundsV1
    \/ CallDrawSeriesWithGaps

SpecHelpers == InitHelpers /\ [][NextHelpers]_vars

(***************************************************************************)
(* src/utils/http.js, src/routes/telemetry.js                              *)
(***************************************************************************)
\* A request body is [recorded_at, values]: recorded_at a number (NaN stands
\* for anything that is not a finite number), values the set of <<key, number>>
\* pairs of the object.  A DATETIME is held as its UTC unix second.

\* new Date(sec * 1000), cut to whole seconds by the getUTC* fields
toMySQLDatetimeFromUnixSeconds(sec) == MathFloor(sec)

MinRecordedAt == 946684800

\* recorded_at > 4102444800, which is 41024448 * 100
AboveMaxRecordedAt(sec) ==
    LET whole == MathFloor(sec)
    IN  \/ whole \div 100 > 41024448
        \/ whole \div 100 = 41024448 /\ (whole % 100 > 0 \/ ~REq(sec, Num(whole)))

validateTelemetryBody(body) ==
    IF ~IsFinite(body.recorded_at)
    THEN "recorded_at must be a unix timestamp number (seconds)"
    ELSE IF RLt(body.recorded_at, Num(MinRecordedAt)) \/ AboveMaxRecordedAt(body.recorded_at)
    THEN "recorded_at out of expected range"
    ELSE IF Cardinality(body.values) = 0
    THEN "values must not be empty"
    ELSE ""

TelemetryRoute == "POST /api/v1/telemetry"

MaxRows == 2

\* POST /api/v1/telemetry of a request deviceAuth let through as device 1.
\* dbFails: a query of the transaction throws, the transaction is rolled back.
PostTelemetry(body, dbFails) ==
    /\ IF validateTelemetryBody(body) # ""
       THEN /\ resp' = [route |-> TelemetryRoute, status |-> 400]
            /\ UNCHANGED <<telemetry, lastSeenAt>>
       ELSE IF dbFails
       THEN /\ resp' = [route |-> TelemetryRoute, status |-> 500]
            /\ UNCHANGED <<telemetry, lastSeenAt>>
       ELSE /\ Len(telemetry) < MaxRows
            /\ telemetry' = Append(telemetry,
                   [device_id |-> 1,
                    recorded_at |-> toMySQLDatetimeFromUnixSeconds(body.recorded_at),
                    received_at |-> now,
                    values |-> body.values])
            /\ lastSeenAt' = [lastSeenAt EXCEPT ![1] = Some(now)]
            /\ resp' = [route |-> TelemetryRoute, status |-> 200]
    /\ UNCHANGED <<now, engine, timestamps, temps, rtcTemps, select, booted, opts, plan,
                   call, api, page, canvas>>

(***************************************************************************)
(* src/pages/landing.js                                                    *)
(***************************************************************************)
\* v[key] of a parsed values_json, null when the key is absent
nOrNull(values, key) ==
    IF \E kv \in values : kv[1] = key
    THEN JsNum((CHOOSE kv \in values : kv[1] = key)[2])
    ELSE JsNull

pickCore(values) ==
    [temp_c |-> nOrNull(values, "temp_c"), rtc_temp_c |-> nOrNull(values, "rtc_temp_c")]

clampRange(raw) == IF raw \in {"1h", "6h", "24h", "72h", "7d", "30d"} THEN raw ELSE "24h"

RANGE_HOURS ==
    [key \in {"1h", "6h", "24h", "72h", "7d", "30d"} |->
        CASE key = "1h" -> 1
          [] key = "6h" -> 6
          [] key = "24h" -> 24
          [] key = "72h" -> 72
          [] key = "7d" -> 24 * 7
          [] key = "30d" -> 24 * 30]

ChartRowLimit == 5000

\* WHERE recorded_at >= FROM_UNIXTIME(cutoff) ORDER BY recorded_at ASC LIMIT limitMax
fetchTelemetryRange(rows, cutoffUnixSec, limitMax) ==
    LET Recent(r) == r.recorded_at >= cutoffUnixSec
        kept == SelectSeq(rows, Recent)
        ordered == SortByT([i \in 1..Len(kept) |-> [t |-> kept[i].recorded_at, row |-> kept[i]]])
        n == IF Len(ordered) < limitMax THEN Len(ordered) ELSE limitMax
    IN  [i \in 1..n |-> ordered[i].row]

LandingRoute == "GET /"

NoPage == [loaded |-> FALSE, rows |-> 0, range |-> ""]

\* GET /?range=rawRange, and the browser showing the response.
\* dbFails: a telemetry query throws, the handler answers 500.
GetLanding(rawRange, dbFails) ==
    LET range == clampRange(rawRange)
        hours == RANGE_HOURS[range]
        nowUnix == now
        cutoffUnix == nowUnix - hours * 3600
        chartRows == fetchTelemetryRange(telemetry, cutoffUnix, ChartRowLimit)
    IN  /\ IF dbFails
           THEN /\ resp' = [route |-> LandingRoute, status |-> 500]
                /\ page' = NoPage
                /\ timestamps' = <<>>
                /\ temps' = <<>>
                /\ rtcTemps' = <<>>
                /\ UNCHANGED select
           ELSE /\ resp' = [route |-> LandingRoute, status |-> 200]
                /\ page' = [loaded |-> TRUE, rows |-> Len(telemetry), range |-> range]
                /\ timestamps' = [i \in 1..Len(chartRows) |-> JsNum(chartRows[i].recorded_at)]
                /\ temps' = [i \in 1..Len(chartRows) |-> pickCore(chartRows[i].values).temp_c]
                /\ rtcTemps' = [i \in 1..Len(chartRows) |-> pickCore(chartRows[i].values).rtc_temp_c]
                /\ select' = range
        /\ booted' = FALSE
        /\ opts' = NoOpts
        /\ plan' = NoPlan
        /\ handlers' = NoHandlers
        /\ title' = <<>>
        /\ pointer' = -1
        /\ UNCHANGED <<now, engine, call, telemetry, lastSeenAt, api>>

(***************************************************************************)
(* The device, the server and the page together                            *)
(***************************************************************************)
RecordedInputs ==
    {Num(MinRecordedAt), Rat(2 * (MinRecordedAt + 240) + 1, 2), Num(MinRecordedAt - 1), NaN}

ValuesInputs == SUBSET {<<"temp_c", 21>>, <<"rtc_temp_c", 22>>}

BodyInputs == [recorded_at : RecordedInputs, values : ValuesInputs]

RangeInputs == {"", "1h", "24h", "90d"}

ServerClocks == {MinRecordedAt + 300, MinRecordedAt + 300 + 3 * 86400}

Init ==
    /\ now = MinRecordedAt + 300
    /\ engine \in Engines
    /\ timestamps = <<>>
    /\ temps = <<>>
    /\ rtcTemps = <<>>
    /\ select = "24h"
    /\ booted = FALSE
    /\ opts = NoOpts
    /\ plan = NoPlan
    /\ call = NoCall
    /\ telemetry = <<>>
    /\ lastSeenAt = NeverSeen
    /\ app = "src/server.js"
    /\ reqs = NoReqs
    /\ out = 0
    /\ resp = NoResp
    /\ page = NoPage
    /\ handlers = NoHandlers
    /\ title = <<>>
    /\ pointer = -1

Next ==
    \/ \E body \in BodyInputs, dbFails \in BOOLEAN : PostTelemetry(body, dbFails)
    \/ \E rawRange \in RangeInputs, dbFails \in BOOLEAN : GetLanding(rawRange, dbFails)
    \/ Boot
    \/ \E key \in {"1h", "24h"} : ChangeRange(key)
    \/ Resize
    \/ \E c \in ServerClocks : Tick(c)

Spec == Init /\ [][Next]_vars

(***************************************************************************)
(* The engine on samples in any order                                      *)
(***************************************************************************)
OrderTs == {JsNum(0), JsNum(240), JsNum(480)}

OrderTemps == {JsNum(10), JsNum(11), JsNaN}

InitOrder ==
    /\ now = 3840
    /\ engine \in Engines
    /\ \E n \in 0..MaxLen :
          /\ timestamps \in ArraysOf(OrderTs, n)
          /\ temps \in ArraysOf(OrderTemps, n)
          /\ rtcTemps \in ArraysOf({JsNum(20)}, n)
    /\ select = "1h"
    /\ booted = FALSE
    /\ opts = NoOpts
    /\ plan = NoPlan
    /\ call = NoCall
    /\ telemetry = <<>>
    /\ lastSeenAt = NeverSeen
    /\ app = "src/server.js"
    /\ reqs = NoReqs
    /\ out = 0
    /\ resp = NoResp
    /\ page = [loaded |-> TRUE, rows |-> 0, range |-> ""]
    /\ handlers = NoHandlers
    /\ title = <<>>
    /\ pointer = -1

NextOrder ==
    \/ Boot
    \/ \E key \in SelectDomain : ChangeRange(key)
    \/ Resize

SpecOrder == InitOrder /\ [][NextOrder]_vars

(***************************************************************************)
(* src/middleware/deviceAuth.js, src/routes/telemetry.js,                  *)
(* src/routes/device.js and the older server.js, one await at a time       *)
(***************************************************************************)
\* A request stands at the await it is suspended on (pc).  A query that throws
\* is the input dbFails of the step.  A connection carries the transaction it
\* has open; what a transaction wrote reaches the tables at commit.

connectionLimit == 10

Apps == {"src/server.js", "server.js"}

\* req.get(name) trimmed, "" standing for null; " " is a header of blanks
requireHeader(v) == IF v \in {"", " "} THEN "" ELSE v

\* a connection as the statements see it: its transaction and the tables
Conn(txn) == [txn |-> txn, telemetry |-> telemetry, lastSeenAt |-> lastSeenAt]

beginTransaction(c) == [c EXCEPT !.txn = [open |-> TRUE, rows |-> <<>>, seen |-> None]]

SameReading(a, b) == a.device_id = b.device_id /\ a.recorded_at = b.recorded_at

\* an insert that replaces the stored row of the same device and recorded_at
InsertReadingUpsert(c, row) ==
    IF \E i \in 1..Len(c.telemetry) : SameReading(c.telemetry[i], row)
    THEN [c EXCEPT !.telemetry = [i \in 1..Len(c.telemetry) |->
                                     IF SameReading(c.telemetry[i], row) THEN row
                                     ELSE c.telemetry[i]]]
    ELSE IF c.txn.open
    THEN [c EXCEPT !.txn.rows = Append(@, row)]
    ELSE [c EXCEPT !.telemetry = Append(@, row)]

\* INSERT INTO telemetry_readings_tb: no unique key can reject the row
InsertReading(c, row) ==
    IF c.txn.open
    THEN [c EXCEPT !.txn.rows = Append(@, row)]
    ELSE [c EXCEPT !.telemetry = Append(@, row)]

\* UPDATE devices_tb SET last_seen_at = NOW() WHERE device_id = ?
UpdateLastSeen(c, deviceId, t) ==
    IF c.txn.open
    THEN [c EXCEPT !.txn.seen = Some([device_id |-> deviceId, at |-> t])]
    ELSE [c EXCEPT !.lastSeenAt[deviceId] = Some(t)]

commit(c) ==
    [txn |-> NoTxn,
     telemetry |-> c.telemetry \o c.txn.rows,
     lastSeenAt |-> IF c.txn.seen.ok
                    THEN [c.lastSeenAt EXCEPT ![c.txn.seen.v.device_id] = Some(c.txn.seen.v.at)]
                    ELSE c.lastSeenAt]

\* a rollback that lets the held-back writes through
rollbackApplied(c) == commit(c)

rollback(c) == [c EXCEPT !.txn = NoTxn]

Respond(rq, status) == [rq EXCEPT !.status = status, !.sent = @ + 1]

\* conn.release() in a finally block, the last thing the function does
ReleaseAndEnd(rq) == [rq EXCEPT !.released = @ + 1, !.held = @ - 1, !.pc = "done", !.txn = NoTxn]

\* conn.release() of deviceAuth after next() has started the next function
ReleaseAfterNext(rq) == [rq EXCEPT !.released = @ + 1, !.held = @ - 1]

\* deviceAuth up to its first await
EnterDeviceAuth(rq, pass) ==
    IF requireHeader(rq.uid) = "" \/ requireHeader(rq.key) = ""
    THEN [Respond(rq, 401) EXCEPT !.pc = "done"]
    ELSE [rq EXCEPT !.pc = "auth_conn", !.pass = pass]

\* the handler of POST /v1/telemetry up to its first await
EnterTelemetry(rq) ==
    IF validateTelemetryBody(rq.body) # ""
    THEN Respond(rq, 400)
    ELSE [rq EXCEPT !.pc = "h_conn"]

\* next() of deviceAuth: the routers mounted behind it, in the order of app.use
NextAfterAuth(rq) ==
    IF rq.route = "telemetry" THEN EnterTelemetry(rq)
    ELSE IF rq.pass = 1 THEN EnterDeviceAuth(rq, 2)
    ELSE [rq EXCEPT !.pc = "d_conn"]

\* the older server.js: the handler of POST /api/v1/telemetry up to its first await
EnterServerJs(rq) ==
    IF requireHeader(rq.uid) = "" \/ requireHeader(rq.key) = ""
    THEN [Respond(rq, 401) EXCEPT !.pc = "done"]
    ELSE IF validateTelemetryBody(rq.body) # ""
    THEN [Respond(rq, 400) EXCEPT !.pc = "done"]
    ELSE [rq EXCEPT !.pc = "m_conn"]

\* device.device_id of the older handler, req.device.device_id of the newer
DeviceIdOf(rq) == IF app = "server.js" THEN rq.device ELSE rq.authed

Finished(rq) == rq.pc \in {"idle", "done"}

ApiFrame ==
    UNCHANGED <<now, engine, timestamps, temps, rtcTemps, select, booted, opts, plan, call,
                resp, app, page, canvas>>

\* a request reaches the server: [route, uid, key, body]
Arrive(r, input) ==
    /\ Finished(reqs[r])
    /\ r > 1 => reqs[r - 1].pc # "idle"
    /\ Len(telemetry) < MaxRows
    /\ app = "server.js" => input.route = "telemetry"
    /\ LET rq == [NoReq EXCEPT !.route = input.route, !.uid = input.uid,
                               !.key = input.key, !.body = input.body]
       IN  reqs' = [reqs EXCEPT ![r] = IF app = "server.js" THEN EnterServerJs(rq)
                                       ELSE EnterDeviceAuth(rq, 1)]
    /\ UNCHANGED <<telemetry, lastSeenAt, out>>
    /\ ApiFrame

AfterConn(pc) ==
    CASE pc = "auth_conn" -> "auth_dev"
      [] pc = "h_conn" -> "h_begin"
      [] pc = "d_conn" -> "d_select"
      [] pc = "m_conn" -> "m_begin"

\* await pool.getConnection(), which stands before the try block.
\* outcome "conn": a connection; "error": it rejects and Express answers 500;
\* "unanswered": it rejects and nothing handles the rejection.
Connect(r, outcome) ==
    LET rq == reqs[r]
    IN  /\ rq.pc \in {"auth_conn", "h_conn", "d_conn", "m_conn"}
        /\ IF outcome = "conn"
           THEN /\ out < connectionLimit
                /\ out' = out + 1
                /\ reqs' = [reqs EXCEPT ![r] = [rq EXCEPT !.acquired = @ + 1, !.held = @ + 1,
                                                          !.pc = AfterConn(rq.pc)]]
           ELSE /\ out' = out
                /\ reqs' = [reqs EXCEPT ![r] =
                               IF outcome = "error" THEN [Respond(rq, 500) EXCEPT !.pc = "done"]
                               ELSE [rq EXCEPT !.pc = "done"]]
        /\ UNCHANGED <<telemetry, lastSeenAt>>
        /\ ApiFrame

\* SELECT device_id, status FROM devices_tb WHERE device_uid = ? LIMIT 1
AuthDevice(r, dbFails) ==
    LET rq == reqs[r]
        devRows == {d \in devices_tb : d.device_uid = requireHeader(rq.uid)}
        device == CHOOSE d \in devRows : TRUE
    IN  /\ rq.pc = "auth_dev"
        /\ IF dbFails THEN /\ reqs' = [reqs EXCEPT ![r] = ReleaseAndEnd(Respond(rq, 500))]
                           /\ out' = out - 1
           ELSE IF devRows = {} \/ device.status # "active"
           THEN /\ reqs' = [reqs EXCEPT ![r] = ReleaseAndEnd(Respond(rq, 401))]
                /\ out' = out - 1
           ELSE /\ reqs' = [reqs EXCEPT ![r] = [rq EXCEPT !.device = device.device_id,
                                                          !.pc = "auth_key"]]
                /\ out' = out
        /\ UNCHANGED <<telemetry, lastSeenAt>>
        /\ ApiFrame

\* KeyRows without the test of the device the key belongs to
KeyRowsAnyDevice(rq) ==
    {k \in device_keys_tb : /\ k.key_hash = sha256Hex(requireHeader(rq.key))
                            /\ ~k.revoked}

KeyRows(rq) ==
    {k \in device_keys_tb : /\ k.device_id = rq.device
                            /\ k.key_hash = sha256Hex(requireHeader(rq.key))
                            /\ ~k.revoked}

\* SELECT device_key_id FROM device_keys_tb ..., then req.device and next()
AuthKey(r, dbFails) ==
    LET rq == reqs[r]
        after == NextAfterAuth([rq EXCEPT !.authed = rq.device])
    IN  /\ rq.pc = "auth_key"
        /\ reqs' = [reqs EXCEPT ![r] =
                       IF dbFails THEN ReleaseAndEnd(Respond(rq, 500))
                       ELSE IF KeyRows(rq) = {} THEN ReleaseAndEnd(Respond(rq, 401))
                       ELSE IF after.pc = "auth_key" THEN ReleaseAndEnd(after)
                       ELSE ReleaseAfterNext(after)]
        /\ out' = out - 1
        /\ UNCHANGED <<telemetry, lastSeenAt>>
        /\ ApiFrame

\* await conn.beginTransaction()
Begin(r, dbFails) ==
    LET rq == reqs[r]
    IN  /\ rq.pc \in {"h_begin", "m_begin"}
        /\ reqs' = [reqs EXCEPT ![r] =
                       IF dbFails THEN [rq EXCEPT !.pc = "h_rollback"]
                       ELSE [rq EXCEPT !.txn = beginTransaction(Conn(rq.txn)).txn,
                                       !.pc = IF rq.pc = "h_begin" THEN "h_insert" ELSE "m_dev"]]
        /\ UNCHANGED <<telemetry, lastSeenAt, out>>
        /\ ApiFrame

\* server.js, 1) Fetch device: a 401 first awaits conn.rollback()
ServerJsFetchDevice(r, dbFails) ==
    LET rq == reqs[r]
        devRows == {d \in devices_tb : d.device_uid = requireHeader(rq.uid)}
        device == CHOOSE d \in devRows : TRUE
    IN  /\ rq.pc = "m_dev"
        /\ reqs' = [reqs EXCEPT ![r] =
                       IF dbFails THEN [rq EXCEPT !.pc = "h_rollback"]
                       ELSE IF devRows = {} \/ device.status # "active"
                       THEN [rq EXCEPT !.pc = "m_reject"]
                       ELSE [rq EXCEPT !.device = device.device_id, !.pc = "m_key"]]
        /\ UNCHANGED <<telemetry, lastSeenAt, out>>
        /\ ApiFrame

\* server.js, 2) Validate device key
ServerJsValidateKey(r, dbFails) ==
    LET rq == reqs[r]
    IN  /\ rq.pc = "m_key"
        /\ reqs' = [reqs EXCEPT ![r] =
                       IF dbFails THEN [rq EXCEPT !.pc = "h_rollback"]
                       ELSE IF KeyRows(rq) = {} THEN [rq EXCEPT !.pc = "m_reject"]
                       ELSE [rq EXCEPT !.pc = "h_insert"]]
        /\ UNCHANGED <<telemetry, lastSeenAt, out>>
        /\ ApiFrame

\* server.js: await conn.rollback(); return res.status(401)...; finally release
ServerJsReject(r, dbFails) ==
    LET rq == reqs[r]
        c == rollback(Conn(rq.txn))
    IN  /\ rq.pc = "m_reject"
        /\ IF dbFails
           THEN /\ reqs' = [reqs EXCEPT ![r] = [rq EXCEPT !.pc = "h_rollback"]]
                /\ UNCHANGED <<telemetry, lastSeenAt, out>>
           ELSE /\ reqs' = [reqs EXCEPT ![r] = ReleaseAndEnd(Respond(rq, 401))]
                /\ telemetry' = c.telemetry
                /\ lastSeenAt' = c.lastSeenAt
                /\ out' = out - 1
        /\ ApiFrame

\* the INSERT of the handler; an error other than ER_DUP_ENTRY is thrown on
Insert(r, dbFails) ==
    LET rq == reqs[r]
        c == InsertReading(Conn(rq.txn),
                 [device_id |-> DeviceIdOf(rq),
                  recorded_at |-> toMySQLDatetimeFromUnixSeconds(rq.body.recorded_at),
                  received_at |-> now,
                  values |-> rq.body.values])
    IN  /\ rq.pc = "h_insert"
        /\ IF dbFails
           THEN /\ reqs' = [reqs EXCEPT ![r] = [rq EXCEPT !.pc = "h_rollback"]]
                /\ UNCHANGED <<telemetry, lastSeenAt>>
           ELSE /\ reqs' = [reqs EXCEPT ![r] = [rq EXCEPT !.txn = c.txn, !.pc = "h_update"]]
                /\ telemetry' = c.telemetry
                /\ lastSeenAt' = c.lastSeenAt
        /\ UNCHANGED out
        /\ ApiFrame

\* the UPDATE of last_seen_at inside the transaction
UpdateSeen(r, dbFails) ==
    LET rq == reqs[r]
        c == UpdateLastSeen(Conn(rq.txn), DeviceIdOf(rq), now)
    IN  /\ rq.pc = "h_update"
        /\ IF dbFails
           THEN /\ reqs' = [reqs EXCEPT ![r] = [rq EXCEPT !.pc = "h_rollback"]]
                /\ UNCHANGED <<telemetry, lastSeenAt>>
           ELSE /\ reqs' = [reqs EXCEPT ![r] = [rq EXCEPT !.txn = c.txn, !.pc = "h_commit"]]
                /\ telemetry' = c.telemetry
                /\ lastSeenAt' = c.lastSeenAt
        /\ UNCHANGED out
        /\ ApiFrame

\* await conn.commit(); return res.status(200)...; finally release
Commit(r, dbFails) ==
    LET rq == reqs[r]
        c == commit(Conn(rq.txn))
    IN  /\ rq.pc = "h_commit"
        /\ IF dbFails
           THEN /\ reqs' = [reqs EXCEPT ![r] = [rq EXCEPT !.pc = "h_rollback"]]
                /\ UNCHANGED <<telemetry, lastSeenAt, out>>
           ELSE /\ reqs' = [reqs EXCEPT ![r] = ReleaseAndEnd(Respond(rq, 200))]
                /\ telemetry' = c.telemetry
                /\ lastSeenAt' = c.lastSeenAt
                /\ out' = out - 1
        /\ ApiFrame

\* catch: try { await conn.rollback() } catch {}; 500; finally release
Rollback(r) ==
    LET rq == reqs[r]
        c == rollback(Conn(rq.txn))
    IN  /\ rq.pc = "h_rollback"
        /\ reqs' = [reqs EXCEPT ![r] = ReleaseAndEnd(Respond(rq, 500))]
        /\ telemetry' = c.telemetry
        /\ lastSeenAt' = c.lastSeenAt
        /\ out' = out - 1
        /\ ApiFrame

\* GET /v1/device: the SELECT of the device row.  removed: the row was deleted
\* from devices_tb after deviceAuth read it.
DeviceSelect(r, dbFails, removed) ==
    LET rq == reqs[r]
        rows == IF removed THEN {} ELSE {d \in devices_tb : d.device_id = rq.authed}
    IN  /\ rq.pc = "d_select"
        /\ IF dbFails THEN /\ reqs' = [reqs EXCEPT ![r] = ReleaseAndEnd(Respond(rq, 500))]
                           /\ out' = out - 1
           ELSE IF rows = {} THEN /\ reqs' = [reqs EXCEPT ![r] = ReleaseAndEnd(Respond(rq, 404))]
                                  /\ out' = out - 1
           ELSE /\ reqs' = [reqs EXCEPT ![r] = [rq EXCEPT !.pc = "d_update"]]
                /\ out' = out
        /\ UNCHANGED <<telemetry, lastSeenAt>>
        /\ ApiFrame

\* GET /v1/device: the liveness ping and the answer
DeviceUpdate(r, dbFails) ==
    LET rq == reqs[r]
        c == UpdateLastSeen(Conn(rq.txn), rq.authed, now)
    IN  /\ rq.pc = "d_update"
        /\ IF dbFails
           THEN /\ reqs' = [reqs EXCEPT ![r] = ReleaseAndEnd(Respond(rq, 500))]
                /\ UNCHANGED <<telemetry, lastSeenAt>>
           ELSE /\ reqs' = [reqs EXCEPT ![r] = ReleaseAndEnd(Respond(rq, 200))]
                /\ telemetry' = c.telemetry
                /\ lastSeenAt' = c.lastSeenAt
        /\ out' = out - 1
        /\ ApiFrame

ConnectOutcomes == {"conn", "error", "unanswered"}

\* the steps of the request in slot r
Serve(r) ==
    \/ \E outcome \in ConnectOutcomes : Connect(r, outcome)
    \/ \E dbFails \in BOOLEAN : AuthDevice(r, dbFails)
    \/ \E dbFails \in BOOLEAN : AuthKey(r, dbFails)
    \/ \E dbFails \in BOOLEAN : Begin(r, dbFails)
    \/ \E dbFails \in BOOLEAN : ServerJsFetchDevice(r, dbFails)
    \/ \E dbFails \in BOOLEAN : ServerJsValidateKey(r, dbFails)
    \/ \E dbFails \in BOOLEAN : ServerJsReject(r, dbFails)
    \/ \E dbFails \in BOOLEAN : Insert(r, dbFails)
    \/ \E dbFails \in BOOLEAN : UpdateSeen(r, dbFails)
    \/ \E dbFails \in BOOLEAN : Commit(r, dbFails)
    \/ Rollback(r)
    \/ \E dbFails \in BOOLEAN, removed \in BOOLEAN : DeviceSelect(r, dbFails, removed)
    \/ \E dbFails \in BOOLEAN : DeviceUpdate(r, dbFails)

(***************************************************************************)
(* One device after another: every kind of header and body                 *)
(***************************************************************************)
UidInputs == {"", " ", "AB-1", "AB-2", "AB-3", "AB-9"}

KeyInputs == {"", "key-1", "key-1-old", "key-2", "key-3"}

IngestBodies ==
    {[recorded_at |-> Num(MinRecordedAt), values |-> {<<"temp_c", 21>>}],
     [recorded_at |-> Num(MinRecordedAt), values |-> {<<"temp_c", 25>>}],
     [recorded_at |-> Num(MinRecordedAt + 240), values |-> {<<"temp_c", 21>>}],
     [recorded_at |-> Num(MinRecordedAt), values |-> {}]}

IngestInputs ==
    [route : {"telemetry"}, uid : UidInputs, key : KeyInputs, body : IngestBodies]
    \cup [route : {"device"}, uid : UidInputs, key : KeyInputs, body : {NoBody}]

InitApi(apps) ==
    /\ now = MinRecordedAt + 300
    /\ engine = "chart_core.js"
    /\ timestamps = <<>>
    /\ temps = <<>>
    /\ rtcTemps = <<>>
    /\ select = "24h"
    /\ booted = FALSE
    /\ opts = NoOpts
    /\ plan = NoPlan
    /\ call = NoCall
    /\ telemetry = <<>>
    /\ lastSeenAt = NeverSeen
    /\ app \in apps
    /\ reqs = NoReqs
    /\ out = 0
    /\ resp = NoResp
    /\ page = NoPage
    /\ handlers = NoHandlers
    /\ title = <<>>
    /\ pointer = -1

InitIngest == InitApi(Apps)

NextIngest ==
    \/ \E input \in IngestInputs : Arrive(1, input)
    \/ Serve(1)

SpecIngest == InitIngest /\ [][NextIngest]_vars

(***************************************************************************)
(* Several requests in flight                                              *)
(***************************************************************************)
PoolInputs ==
    {[route |-> "telemetry", uid |-> "AB-1", key |-> "key-1",
      body |-> [recorded_at |-> Num(MinRecordedAt), values |-> {<<"temp_c", 21>>}]],
     [route |-> "telemetry", uid |-> "AB-1", key |-> "key-1-old",
      body |-> [recorded_at |-> Num(MinRecordedAt), values |-> {<<"temp_c", 21>>}]],
     [route |-> "device", uid |-> "AB-1", key |-> "key-1", body |-> NoBody]}

InitPool == InitApi(Apps)

NextPool ==
    \/ \E r \in Slots, input \in PoolInputs : Arrive(r, input)
    \/ \E r \in Slots : Serve(r)

SpecPool == InitPool /\ [][NextPool]_vars

(***************************************************************************)
(* Properties of the helpers                                               *)
(***************************************************************************)
NiceBoundsFns == {"niceBounds", "niceBoundsV1"}

NiceBoundsReturned == call.fn \in NiceBoundsFns /\ call.done

FiniteArgs == IsFinite(call.args[1]) /\ IsFinite(call.args[2])

\* a / b is an integer
IsMultiple(a, b) == LET q == RDiv(a, b) IN IsFinite(q) /\ q.d = 1

RECURSIVE Flatten(_)
Flatten(segs) ==
    IF segs = <<>> THEN <<>>
    ELSE Flatten(SubSeq(segs, 1, Len(segs) - 1)) \o segs[Len(segs)]

\* the indices of data at which a path of segs starts
RECURSIVE StartsOf(_)
StartsOf(segs) ==
    IF segs = <<>> THEN {}
    ELSE StartsOf(SubSeq(segs, 1, Len(segs) - 1))
            \cup {Len(Flatten(SubSeq(segs, 1, Len(segs) - 1))) + 1}

\* C5: the paths drawn for a time-sorted point list partition it, in order, into
\* non-empty runs; a new run starts at point i exactly when t[i] - t[i-1] exceeds
\* maxGapS, so gaps inside a run are <= maxGapS and gaps between runs are > maxGapS
C5_SegmentsPartition ==
    (call.fn = "drawSeriesWithGaps" /\ call.done) =>
        LET data == call.args[1]
            maxGapS == call.args[2]
            segs == call.ret
        IN  /\ Flatten(segs) = data
            /\ \A k \in 1..Len(segs) : segs[k] # <<>>
            /\ \A i \in 2..Len(data) :
                  (i \in StartsOf(segs)) <=> (data[i].t - data[i - 1].t > maxGapS)
            /\ (data # <<>>) => 1 \in StartsOf(segs)
            /\ \A k \in 1..Len(segs) : \A j \in 2..Len(segs[k]) :
                  segs[k][j].t - segs[k][j - 1].t <= maxGapS
            /\ \A k \in 2..Len(segs) :
                  segs[k][1].t - segs[k - 1][Len(segs[k - 1])].t > maxGapS

\* a list with a gap equal to maxGapS kept in one run, then a larger gap and a
\* one-point run
C5_Witness ==
    /\ call.fn = "drawSeriesWithGaps" /\ call.done
    /\ call.args[2] = 240
    /\ Len(call.ret) = 2
    /\ Len(call.ret[1]) = 2 /\ call.ret[1][2].t - call.ret[1][1].t = 240
    /\ Len(call.ret[2]) = 1

PadOf(v) == IF REq(v, Num(0)) THEN Num(1) ELSE RMul(RAbs(v), Rat(1, 10))

\* C9: a degenerate range v = v is padded by 1 (v = 0) or 0.1 * |v| and snapped
\* outward: min < v < max, step > 0; at v = 0 the bounds are symmetric, never {0, 0}
C9_DegenerateRange ==
    (NiceBoundsReturned /\ FiniteArgs /\ REq(call.args[1], call.args[2])) =>
        LET v == call.args[1]
            r == call.ret
        IN  /\ RLt(r.min, v) /\ RLt(v, r.max)
            /\ RLt(Num(0), r.step)
            /\ RLe(r.min, RSub(v, PadOf(v))) /\ RLt(RSub(v, PadOf(v)), RAdd(r.min, r.step))
            /\ RLe(RAdd(v, PadOf(v)), r.max) /\ RLt(RSub(r.max, r.step), RAdd(v, PadOf(v)))
            /\ REq(v, Num(0)) => (REq(r.min, RNeg(r.max)) /\ ~REq(r.max, Num(0)))

C9_Witness ==
    /\ NiceBoundsReturned /\ FiniteArgs
    /\ REq(call.args[1], Num(0)) /\ REq(call.args[2], Num(0))
    /\ call.args[3] = 5
    /\ REq(call.ret.min, Num(-1)) /\ REq(call.ret.max, Num(1))

KRange == 4

Family == {1, 2, 5, 10}

\* 10^k as a number, k of either sign
Decade(k) == IF k >= 0 THEN Num(Pow10(k)) ELSE Rat(1, Pow10(-k))

Drawn == booted /\ plan.text # ""

\* the finite entries of a timestamp array
FiniteTimes(ts) == {ts[i].v : i \in {j \in 1..Len(ts) : ts[j].k = "num"}}

SetMax(S) == CHOOSE m \in S : \A o \in S : o <= m

\* the hour count the range table gives a key, 24 for a key it does not hold
ClaimedHours(key) ==
    CASE key = "1h" -> 1
      [] key = "6h" -> 6
      [] key = "24h" -> 24
      [] key = "72h" -> 72
      [] key = "7d" -> 168
      [] key = "30d" -> 720
      [] OTHER -> 24

\* C1: with at least one finite timestamp the window is latest = the maximum
\* finite timestamp and cutoff = latest - hours * 3600, whatever the wall clock
\* reads when the chart is drawn
C1_WindowAnchoredToLatest ==
    (Drawn /\ FiniteTimes(opts.timestamps) # {}) =>
        /\ plan.win.has
        /\ plan.win.latest = SetMax(FiniteTimes(opts.timestamps))
        /\ plan.win.cutoff = plan.win.latest - ClaimedHours(opts.rangeKey) * 3600

Count(seq, p) == Cardinality({j \in 1..Len(seq) : seq[j] = p})

Numeric(x) == x.k = "num"

\* C3: a null or non-numeric entry of a value array is no reading: each series has
\* exactly one point per in-window index holding a number, and the reading
\* timestamps are exactly the in-window indices at which some series holds a number
C3_NullIsNoReading ==
    (Drawn /\ plan.win.has) =>
        LET ts == opts.timestamps
            inWin(i) == /\ Numeric(ts[i])
                        /\ plan.win.cutoff <= ts[i].v
                        /\ ts[i].v <= plan.win.latest
        IN  /\ \A si \in 1..Len(opts.series) :
                  Len(plan.series[si]) =
                      Cardinality({i \in 1..Len(ts) : inWin(i) /\ Numeric(At(opts.series[si], i))})
            /\ Len(plan.readingTimes) =
                  Cardinality({i \in 1..Len(ts) :
                      inWin(i) /\ \E si \in 1..Len(opts.series) : Numeric(At(opts.series[si], i))})

\* C4: a sample holding a number is a point of its series exactly when its
\* timestamp is finite and cutoff <= t <= latest, both ends included; no point
\* lies outside the window
C4_WindowInclusive ==
    (Drawn /\ plan.win.has) =>
        LET ts == opts.timestamps
            w == plan.win
        IN  \A si \in 1..Len(opts.series) :
              /\ \A j \in 1..Len(plan.series[si]) :
                    w.cutoff <= plan.series[si][j].t /\ plan.series[si][j].t <= w.latest
              /\ \A i \in 1..Len(ts) :
                    (Numeric(At(opts.series[si], i)) /\ Numeric(ts[i])) =>
                        LET p == [t |-> ts[i].v, v |-> opts.series[si][i].v]
                            same == {j \in 1..Len(ts) :
                                        /\ ts[j] = ts[i]
                                        /\ At(opts.series[si], j) = opts.series[si][i]}
                        IN  Count(plan.series[si], p) =
                                IF w.cutoff <= ts[i].v /\ ts[i].v <= w.latest
                                THEN Cardinality(same) ELSE 0

\* one series holds a point exactly on the cutoff and a point exactly on latest
C4_Witness ==
    /\ Drawn /\ plan.win.has /\ plan.text = "chart"
    /\ plan.win.cutoff = 240
    /\ \E si \in 1..Len(plan.series) :
          /\ \E j \in 1..Len(plan.series[si]) : plan.series[si][j].t = plan.win.cutoff
          /\ \E j \in 1..Len(plan.series[si]) : plan.series[si][j].t = plan.win.latest

\* the reading timestamps: the in-window timestamps at which at least one series
\* holds a number
ClaimedReadings ==
    LET ts == opts.timestamps
    IN  {ts[i].v : i \in {j \in 1..Len(ts) :
            /\ Numeric(ts[j])
            /\ plan.win.cutoff <= ts[j].v /\ ts[j].v <= plan.win.latest
            /\ \E si \in 1..Len(opts.series) : Numeric(At(opts.series[si], j))}}

\* C6: a gap marker stands at a reading timestamp r exactly when the next reading
\* timestamp in ascending order lies more than maxGapS after r, and nowhere else
C6_GapMarkers ==
    (Drawn /\ plan.text = "chart") =>
        LET R == ClaimedReadings
            g == MaxGapOf(opts.maxGapS)
        IN  \A t \in FiniteTimes(opts.timestamps) :
              (\E k \in 1..Len(plan.gapMarkers) : plan.gapMarkers[k] = t)
                  <=> /\ t \in R
                      /\ \E u \in R : /\ u - t > g
                                      /\ ~\E m \in R : t < m /\ m < u

(***************************************************************************)
(* Properties of the landing page fetch followed by the chart draw         *)
(***************************************************************************)
LatestRecorded == SetMax({telemetry[i].recorded_at : i \in 1..Len(telemetry)})

\* the page shows the table as it is now, drawn for the range it was fetched with
DrawnFromTable ==
    /\ Drawn
    /\ page.loaded /\ page.rows = Len(telemetry) /\ page.range = select
    /\ opts.rangeKey = select

\* C2: when the newest row of the device is older than the selected range, the
\* chart drawn from the fetched page is not an empty state and each series holds
\* every reading recorded in the range's hours up to that newest row
C2_StalledDeviceStillCharted ==
    (DrawnFromTable /\ telemetry # <<>>
        /\ LatestRecorded < now - ClaimedHours(select) * 3600) =>
        /\ plan.text = "chart"
        /\ \A i \in 1..Len(telemetry) :
              LET r == telemetry[i]
              IN  (LatestRecorded - ClaimedHours(select) * 3600 <= r.recorded_at) =>
                    /\ (\E kv \in r.values : kv[1] = "temp_c") =>
                          \E j \in 1..Len(plan.series[1]) :
                              plan.series[1][j].t = r.recorded_at
                    /\ (\E kv \in r.values : kv[1] = "rtc_temp_c") =>
                          \E j \in 1..Len(plan.series[2]) :
                              plan.series[2][j].t = r.recorded_at

(***************************************************************************)
(* Properties of the empty states                                          *)
(***************************************************************************)
\* nothing but the text is on the canvas
NothingDrawn ==
    /\ plan.yB = NoBounds
    /\ plan.gapMarkers = <<>>
    /\ \A si \in 1..Len(plan.paths) : plan.paths[si] = <<>>
    /\ \A si \in 1..Len(plan.series) : plan.series[si] = <<>>

\* C11: a timestamp array without a finite value gives no window and the
\* "No data" state, with no bound, path or marker computed
C11_NoFiniteTimestamp ==
    (Drawn /\ FiniteTimes(opts.timestamps) = {}) =>
        /\ plan.text = "No data"
        /\ ~plan.win.has
        /\ NothingDrawn

\* some series has a point inside the window of the plan
HasPointInWindow ==
    \E i \in 1..Len(opts.timestamps), si \in 1..Len(opts.series) :
        /\ toFiniteNumber(opts.timestamps[i]).ok
        /\ plan.win.cutoff <= toFiniteNumber(opts.timestamps[i]).v
        /\ toFiniteNumber(opts.timestamps[i]).v <= plan.win.latest
        /\ toFiniteNumber(At(opts.series[si], i)).ok

\* C12: with a window, "No data in range" is on the canvas exactly when no series
\* has a point inside the window, and then nothing else is drawn; otherwise the
\* chart is drawn with finite bounds and every point of every series on a path
C12_EmptyInRange ==
    (Drawn /\ plan.win.has) =>
        /\ (plan.text = "No data in range") <=> ~HasPointInWindow
        /\ (plan.text = "No data in range") => NothingDrawn
        /\ HasPointInWindow =>
              /\ plan.text = "chart"
              /\ IsFinite(plan.yB.min) /\ IsFinite(plan.yB.max) /\ IsFinite(plan.yB.step)
              /\ \A si \in 1..Len(plan.series) : Flatten(plan.paths[si]) = plan.series[si]

\* the timestamps hold a finite value, yet no series has a point in the window
C12_Witness ==
    /\ Drawn /\ plan.win.has
    /\ plan.text = "No data in range"
    /\ FiniteTimes(opts.timestamps) # {}
    /\ \E i \in 1..Len(opts.timestamps) : Numeric(At(opts.series[1], i))

(***************************************************************************)
(* Properties of the hover lookup                                          *)
(***************************************************************************)
\* the points on the canvas, each with the series it belongs to
PlottedPoints ==
    UNION {{[time |-> plan.series[si][j].t, value |-> plan.series[si][j].v, name |-> si] :
               j \in 1..Len(plan.series[si])} : si \in 1..Len(plan.series)}

\* |timeToX(t) - pointerX| on the canvas as drawn
PixelDistance(mouseX, t) == RAbs(RSub(Num(mouseX), xMap(plan.win, t)))

\* C13: over a drawn chart a mousemove leaves no tooltip exactly when every
\* plotted point is more than 10 pixels from the pointer; at exactly 10 pixels the
\* nearest point is shown
C13_HoverThreshold ==
    [][\A mouseX \in MouseXs :
          (MouseMove(mouseX) /\ plan.text = "chart") =>
              ((title' = <<>>) <=>
                  \A p \in PlottedPoints : RLt(Num(10), PixelDistance(mouseX, p.time)))]_vars

\* C14: the point a mousemove shows over a chart drawn by public/chart.js is a
\* plotted point at the least pixel distance from the pointer; among the points at
\* that distance it belongs to the earliest series, and within that series it is
\* the earliest in time
C14_NearestPoint ==
    [][\A mouseX \in MouseXs :
          (MouseMove(mouseX) /\ engine = "chart.js" /\ plan.text = "chart" /\ title' # <<>>) =>
              LET hit == title'[1]
              IN  /\ hit \in PlottedPoints
                  /\ \A p \in PlottedPoints :
                        /\ RLe(PixelDistance(mouseX, hit.time), PixelDistance(mouseX, p.time))
                        /\ REq(PixelDistance(mouseX, hit.time), PixelDistance(mouseX, p.time)) =>
                              /\ hit.name <= p.name
                              /\ (hit.name = p.name) => hit.time <= p.time]_vars

\* the pointer sits midway between two points of the first series, the second
\* series has points at the same distance, and the tooltip shows the earlier
\* point of the first series
C14_Witness ==
    /\ engine = "chart.js" /\ plan.text = "chart"
    /\ pointer # -1 /\ title # <<>>
    /\ Len(handlers.move) = 1 /\ handlers.move[1].win = plan.win
    /\ title[1].name = 1
    /\ title[1] \in PlottedPoints
    /\ \A p \in PlottedPoints :
          RLe(PixelDistance(pointer, title[1].time), PixelDistance(pointer, p.time))
    /\ \E p \in PlottedPoints :
          /\ p.name = 2
          /\ REq(PixelDistance(pointer, p.time), PixelDistance(pointer, title[1].time))
    /\ \E p \in PlottedPoints :
          /\ p.name = 1 /\ p.time > title[1].time
          /\ REq(PixelDistance(pointer, p.time), PixelDistance(pointer, title[1].time))

\* C15: invoking the engine again on the inputs of the last redraw, at whatever
\* time the wall clock shows by then, yields the plan that redraw produced
C15_Deterministic ==
    Drawn => Plan(engine, opts, now) = plan

\* C16: however many redraws the canvas has seen, it carries at most the hover
\* handlers one redraw attaches: one for mousemove and one for mouseleave
C16_NoHandlerLeak ==
    Drawn => (Len(handlers.move) <= 1 /\ handlers.leave <= 1)

\* C17: a mousemove after a redraw that ended in "No data" or "No data in range"
\* shows no tooltip, and one after a redraw that drew a chart shows a point of
\* that chart or nothing
C17_LatestRedrawOnly ==
    [][\A mouseX \in MouseXs :
          (MouseMove(mouseX) /\ Drawn) =>
              IF plan.text = "chart"
              THEN title' = <<>> \/ \E p \in PlottedPoints : p.time = title'[1].time
              ELSE title' = <<>>]_vars

\* the entries <<series, index>> that hold a number at a timestamp inside the
\* window of the plan
InWindowSamples ==
    {q \in (1..Len(opts.series)) \X (1..Len(opts.timestamps)) :
        /\ q[2] <= Len(opts.series[q[1]])
        /\ Numeric(opts.series[q[1]][q[2]])
        /\ InWindow(toFiniteNumber(opts.timestamps[q[2]]), plan.win)}

InWindowValues == {opts.series[q[1]][q[2]].v : q \in InWindowSamples}

LeastOf(S) == CHOOSE m \in S : \A x \in S : m <= x

\* C18: the Y bounds of a drawn chart are niceBounds(min, max, 5) of the numbers
\* the series hold inside the window, and every plotted value lies within them
C18_SharedBounds ==
    (Drawn /\ plan.text = "chart") =>
        /\ InWindowValues # {}
        /\ plan.yB = niceBounds(Num(LeastOf(InWindowValues)), Num(SetMax(InWindowValues)), 5)
        /\ \A si \in 1..Len(plan.series) : \A j \in 1..Len(plan.series[si]) :
              /\ RLe(plan.yB.min, Num(plan.series[si][j].v))
              /\ RLe(Num(plan.series[si][j].v), plan.yB.max)

\* C19: when exactly one entry of the series holds a number inside the window,
\* the chart is drawn, that series has exactly one segment of that single point,
\* there is no gap marker, and the Y bounds are niceBounds(v, v, 5) of its value v
C19_SingleSample ==
    (Drawn /\ plan.win.has /\ Cardinality(InWindowSamples) = 1) =>
        LET q == CHOOSE x \in InWindowSamples : TRUE
            t == opts.timestamps[q[2]].v
            v == opts.series[q[1]][q[2]].v
        IN  /\ plan.text = "chart"
            /\ plan.paths[q[1]] = << <<[t |-> t, v |-> v]>> >>
            /\ plan.gapMarkers = <<>>
            /\ plan.yB = niceBounds(Num(v), Num(v), 5)

\* C20: the table holds at most one row for each device and recorded_at,
\* however often a reading with that recorded_at was submitted
C20_OneRowPerRecordedAt ==
    \A i, j \in 1..Len(telemetry) :
        (/\ telemetry[i].device_id = telemetry[j].device_id
         /\ telemetry[i].recorded_at = telemetry[j].recorded_at) => i = j

(***************************************************************************)
(* Properties of the API                                                   *)
(***************************************************************************)
\* the devices a request may write for: those that exist, are active, carry
\* the X-Device-Id of the request and own a key, not revoked, whose hash is
\* that of its X-Device-Key
AuthorisedDevices(rq) ==
    {d.device_id : d \in {x \in devices_tb :
        /\ rq.uid \notin {"", " "} /\ rq.key \notin {"", " "}
        /\ x.device_uid = rq.uid
        /\ x.status = "active"
        /\ \E k \in device_keys_tb :
              k.device_id = x.device_id /\ k.key_hash = sha256Hex(rq.key) /\ ~k.revoked}}

\* the rows a step appended to telemetry_readings_tb
AppendedRows == {telemetry'[i] : i \in (Len(telemetry) + 1)..Len(telemetry')}

C22_NeverOverwritten ==
    [][/\ Len(telemetry') >= Len(telemetry)
       /\ \A i \in 1..Len(telemetry) :
             /\ telemetry'[i].device_id = telemetry[i].device_id
             /\ telemetry'[i].recorded_at = telemetry[i].recorded_at
             /\ telemetry'[i].values = telemetry[i].values]_vars

\* a later submission for the same device and recorded_at with other values was
\* answered 200, and the row stored first still holds its values
C22_Witness ==
    /\ Len(telemetry) = 2
    /\ SameReading(telemetry[1], telemetry[2])
    /\ telemetry[1].values = {<<"temp_c", 21>>}
    /\ telemetry[2].values = {<<"temp_c", 25>>}
    /\ reqs[1].pc = "done" /\ reqs[1].status = 200

Perms(n) == {f \in [1..n -> 1..n] : \A i, j \in 1..n : f[i] = f[j] => i = j}

\* the arguments of the last draw with the samples taken in the order f
Reordered(f) ==
    [opts EXCEPT !.timestamps = [i \in 1..Len(opts.timestamps) |-> opts.timestamps[f[i]]],
                 !.series = [si \in 1..Len(opts.series) |->
                                [i \in 1..Len(opts.series[si]) |-> opts.series[si][f[i]]]]]

AscendingByT(data) == \A i \in 1..(Len(data) - 1) : data[i].t <= data[i + 1].t

DistinctTimes ==
    \A i, j \in 1..Len(opts.timestamps) : opts.timestamps[i] = opts.timestamps[j] => i = j

Spans(seg, g) ==
    /\ \E i \in 1..Len(seg) : seg[i].t <= g
    /\ \E j \in 1..Len(seg) : seg[j].t > g

\* C26: for every gap marker at time g and every series, no segment of the
\* series holds both a point with t <= g and a point with t > g
C26_MarkersBreakLines ==
    (Drawn /\ plan.text = "chart") =>
        \A gi \in 1..Len(plan.gapMarkers) : \A si \in 1..Len(plan.paths) :
            \A k \in 1..Len(plan.paths[si]) :
                ~Spans(plan.paths[si][k], plan.gapMarkers[gi])

\* a chart with a gap marker and a series with points on both sides of it
C26_Witness ==
    /\ Drawn /\ plan.text = "chart" /\ engine = "chart_core.js"
    /\ \E gi \in 1..Len(plan.gapMarkers) : \E si \in 1..Len(plan.series) :
          /\ Spans(plan.series[si], plan.gapMarkers[gi])
          /\ Len(plan.paths[si]) = 2

\* every plotted point is inside the plot rectangle of a W by H canvas
InsidePlot(W, H) ==
    \A p \in PlottedPoints :
        LET x == xMapOn(engine, W, plan.win, p.time)
            y == yMapOn(engine, H, plan.yB, p.value)
        IN  /\ RLe(Num(padL), x) /\ RLe(x, Num(padL + plotWOn(engine, W)))
            /\ RLe(Num(padT), y) /\ RLe(y, Num(padT + plotHOn(engine, H)))

\* later points are not further left, greater values are not further down
MonotoneMaps(W, H) ==
    \A p, q \in PlottedPoints :
        /\ p.time <= q.time =>
              RLe(xMapOn(engine, W, plan.win, p.time), xMapOn(engine, W, plan.win, q.time))
        /\ p.value <= q.value =>
              RLe(yMapOn(engine, H, plan.yB, q.value), yMapOn(engine, H, plan.yB, p.value))

\* C27: for every canvas size and every input each plotted point lies inside the
\* plot rectangle, timeToX is non-decreasing in t and valueToY is non-increasing
\* in v
C27_InsidePlotRectangle ==
    (Drawn /\ plan.text = "chart") =>
        \A W \in CanvasWidths : \A H \in CanvasHeights :
            InsidePlot(W, H) /\ MonotoneMaps(W, H)

(***************************************************************************)
(* Properties of the Y axis                                                *)
(***************************************************************************)
\* the number of step intervals between the returned bounds
StepIntervals == RDiv(RSub(call.ret.max, call.ret.min), call.ret.step)

C29_AllOrNothing ==
    [][(telemetry' # telemetry \/ lastSeenAt' # lastSeenAt) =>
          \E r \in Slots :
              /\ reqs[r].pc \notin {"idle", "done"}
              /\ reqs'[r].pc = "done"
              /\ reqs'[r].status = 200 /\ reqs'[r].sent = 1]_vars

\* the commit of a telemetry request failed after its INSERT and UPDATE: the row
\* and the last_seen_at are held back, the tables are as before, the 500 is next
C29_Witness ==
    \E r \in Slots :
        /\ reqs[r].route = "telemetry" /\ reqs[r].pc = "h_rollback"
        /\ reqs[r].txn.open /\ reqs[r].txn.rows # <<>> /\ reqs[r].txn.seen.ok
        /\ telemetry = <<>> /\ lastSeenAt = NeverSeen

(***************************************************************************)
(* Properties of the connection pool                                       *)
(***************************************************************************)
RECURSIVE HeldBy(_)
HeldBy(r) == IF r = 0 THEN 0 ELSE reqs[r].held + HeldBy(r - 1)

\* every connection a request took is given back once, and none is kept by a
\* request that has ended
ConnectionsReleasedOnce ==
    /\ out = HeldBy(MaxInFlight)
    /\ \A r \in Slots :
          /\ reqs[r].held >= 0
          /\ reqs[r].released + reqs[r].held = reqs[r].acquired
          /\ reqs[r].pc = "done" => reqs[r].held = 0
    /\ (\A r \in Slots : Finished(reqs[r])) => out = 0

\* C30: every connection acquired by deviceAuth, the telemetry handler or the
\* device handler is released exactly once on every path, every request that has
\* ended was sent exactly one response, and when all requests have ended no
\* connection is checked out
C30_ReleasedOnceAnsweredOnce ==
    /\ ConnectionsReleasedOnce
    /\ \A r \in Slots : reqs[r].pc = "done" => reqs[r].sent = 1

=============================================================================
